---- MODULE Spec2Model ----
(***************************************************************************)
(* nice_pics: a PNG chunk codec (chunk type codes, chunk records, CRC-32,  *)
(* the chunk container) and the hidden_msg command line tool built on it.  *)
(*                                                                         *)
(* A byte is a number in 0..255.  A u32 is kept as a pair <<hi, lo>> of    *)
(* 16-bit halves (value = hi * 65536 + lo): the model checker's integers   *)
(* are 32-bit signed, and a CRC does not fit.  A str is its UTF-8 bytes.   *)
(***************************************************************************)
EXTENDS Naturals, Sequences, FiniteSets

(***************************************************************************)
(* Bounds of the model.                                                    *)
(***************************************************************************)
\* longest type-code string tried by from_str
MaxStrLen == 5
\* longest chunk data
MaxData == 2
\* most chunks a container holds
MaxChunks == 3

(***************************************************************************)
(* With(v, F) is F(v) with v evaluated once: the idiom for a local value   *)
(* that is used several times.                                             *)
(***************************************************************************)
With(v, F(_)) == CHOOSE y \in {F(x) : x \in {v}} : TRUE

(***************************************************************************)
(* Bit operations on bytes and 16-bit halves, u32 arithmetic.              *)
(***************************************************************************)
RECURSIVE XorBits(_, _, _)
XorBits(a, b, n) ==
    IF n = 0 THEN 0
    ELSE ((a + b) % 2) + 2 * XorBits(a \div 2, b \div 2, n - 1)

\* the tuple << f(lo), ..., f(hi) >>
RECURSIVE Tabulate(_, _, _)
Tabulate(f(_), lo, hi) ==
    IF lo > hi THEN << >>
    ELSE IF lo = hi THEN << f(lo) >>
    ELSE Tabulate(f, lo, (lo + hi) \div 2) \o Tabulate(f, (lo + hi) \div 2 + 1, hi)

\* the XOR of two bytes, tabulated: XorTable[a + 1][b + 1]
XorRow(a) == LET AtB(b) == XorBits(a, b, 8) IN Tabulate(AtB, 0, 255)
XorTable == Tabulate(XorRow, 0, 255)
XorByte(a, b) == XorTable[a + 1][b + 1]

Xor16(a, b) ==
    XorByte(a \div 256, b \div 256) * 256 + XorByte(a % 256, b % 256)

Xor32(x, y) == << Xor16(x[1], y[1]), Xor16(x[2], y[2]) >>

\* x >> 1 on a u32
Shr1(x) == << x[1] \div 2, (x[1] % 2) * 32768 + x[2] \div 2 >>

\* x >> 8 on a u32
Shr8(x) == << x[1] \div 256, (x[1] % 256) * 256 + x[2] \div 256 >>

\* usize as u32: the low 32 bits
AsU32(n) == << (n \div 65536) % 65536, n % 65536 >>

\* u32::to_be_bytes
ToBeBytes(x) == << x[1] \div 256, x[1] % 256, x[2] \div 256, x[2] % 256 >>

\* u32::from_be_bytes on a 4-byte array
FromBeBytes(b) == << b[1] * 256 + b[2], b[3] * 256 + b[4] >>

\* a u32 small enough to be used as a number (None above 2^16)
U32Small(x) == x[1] = 0

\* bit n of a byte: input & (1 << n) != 0
BitSet(input, n) == (input \div (2 ^ n)) % 2 = 1

\* a byte with bit n flipped
FlipBitOf(b, n) == IF BitSet(b, n) THEN b - 2 ^ n ELSE b + 2 ^ n

(***************************************************************************)
(* crc::crc32: reflected CRC-32, polynomial 0xEDB88320, initial value and  *)
(* final XOR 0xFFFFFFFF, driven by a 256-entry table.                      *)
(***************************************************************************)
CrcPolyHi == 60856
CrcPolyLo == 33568
CrcPoly == << CrcPolyHi, CrcPolyLo >>
AllOnes == << 65535, 65535 >>

RECURSIVE CrcTableEntry(_, _)
CrcTableEntry(c, k) ==
    IF k = 0 THEN c
    ELSE CrcTableEntry(IF c[2] % 2 = 1 THEN Xor32(CrcPoly, Shr1(c)) ELSE Shr1(c),
                       k - 1)

\* the table: entry n at CrcTable[n + 1]
CrcTableAt(n) == CrcTableEntry(<< 0, n >>, 8)
CrcTable == Tabulate(CrcTableAt, 0, 255)

\* one byte folded into the running value
CrcStep(c, b) ==
    With(c, LAMBDA v : Xor32(CrcTable[XorByte(v[2] % 256, b) + 1], Shr8(v)))

\* the bytes buf[lo..hi] folded into c, the halves of the range in turn
RECURSIVE CrcUpdate(_, _, _, _)
CrcUpdate(c, buf, lo, hi) ==
    IF lo > hi THEN c
    ELSE IF lo = hi THEN CrcStep(c, buf[lo])
    ELSE With(CrcUpdate(c, buf, lo, (lo + hi) \div 2),
              LAMBDA left : CrcUpdate(left, buf, (lo + hi) \div 2 + 1, hi))

crc32(buf) == Xor32(CrcUpdate(AllOnes, buf, 1, Len(buf)), AllOnes)

(***************************************************************************)
(* Results and options.  Every fallible operation returns Ok(v) or an      *)
(* error of one kind; an out-of-range slice index aborts the process,      *)
(* which is the outcome Panic.                                             *)
(***************************************************************************)
Ok(v) == [kind |-> "Ok", val |-> v]
Err(k, v) == [kind |-> k, val |-> v]
Panic == [kind |-> "Panic", val |-> << >>]
Some(v) == [kind |-> "Some", val |-> v]
None == [kind |-> "None", val |-> << >>]

(***************************************************************************)
(* chunk_type.rs                                                           *)
(***************************************************************************)
\* faulty variant: the ranges without their last letters, (b'A'..b'Z').chain(b'a'..b'z')
LetterRangeExclusive == (65..89) \cup (97..121)

\* (b'A'..=b'Z').chain(b'a'..=b'z')
LetterRange == (65..90) \cup (97..122)

\* ChunkType::get_bit_at(input, n): Ok(bit) for n <= 8, an error above
get_bit_at(input, n) ==
    IF n <= 8 THEN Ok(BitSet(input, n)) ELSE Err("BitOutOfScope", n)

is_critical(ct) == ~ get_bit_at(ct.bytes[1], 5).val

is_public(ct) == ~ get_bit_at(ct.bytes[2], 5).val

is_reserved_bit_valid(ct) == ~ get_bit_at(ct.bytes[3], 5).val

\* faulty variant: the negation of the three other flags copied
is_safe_to_copy_negated(ct) == ~ get_bit_at(ct.bytes[4], 5).val

is_safe_to_copy(ct) == get_bit_at(ct.bytes[4], 5).val

is_valid(ct) == is_reserved_bit_valid(ct)

\* impl TryFrom<[u8; 4]> for ChunkType: the first byte outside the range fails
ChunkTypeTryFrom(value) ==
    LET bad == {i \in 1..4 : value[i] \notin LetterRange}
    IN  IF bad # {}
        THEN Err("InvalidByte", value[CHOOSE i \in bad : \A j \in bad : i <= j])
        ELSE Ok([bytes |-> value])

\* impl FromStr for ChunkType; s.len() is the length in bytes
ChunkTypeFromStr(str) ==
    IF Len(str) # 4 THEN Err("InvalidLength", Len(str))
    ELSE ChunkTypeTryFrom([i \in 1..4 |-> str[i]])

\* String::from_utf8_lossy on bytes none of which starts a valid multi-byte
\* sequence: an ASCII byte is kept, any other becomes U+FFFD (EF BF BD)
RECURSIVE Utf8Lossy(_)
Utf8Lossy(bytes) ==
    IF bytes = << >> THEN << >>
    ELSE (IF Head(bytes) < 128 THEN << Head(bytes) >> ELSE << 239, 191, 189 >>)
         \o Utf8Lossy(Tail(bytes))

\* faulty variant: the type code rendered in lower case
ChunkTypeToStringLowercase(ct) ==
    Utf8Lossy([i \in 1..4 |-> IF ct.bytes[i] \in 65..90 THEN ct.bytes[i] + 32
                                                        ELSE ct.bytes[i]])

\* impl Display for ChunkType (to_string)
ChunkTypeToString(ct) == Utf8Lossy(ct.bytes)

(***************************************************************************)
(* chunk.rs                                                                *)
(***************************************************************************)
\* Chunk::calculate_crc: the CRC of the type bytes followed by the data
calculate_crc(chunk_type, data) == crc32(chunk_type.bytes \o data)

\* Chunk::new
ChunkNew(chunk_type, data) ==
    [length |-> AsU32(Len(data)), chunk_type |-> chunk_type, data |-> data,
     crc |-> calculate_crc(chunk_type, data)]

\* faulty variant: the checksum written little-endian
as_bytes_crc_le(c) ==
    ToBeBytes(c.length) \o c.chunk_type.bytes \o c.data
        \o << c.crc[2] % 256, c.crc[2] \div 256, c.crc[1] % 256, c.crc[1] \div 256 >>

\* Chunk::as_bytes
as_bytes(c) ==
    ToBeBytes(c.length) \o c.chunk_type.bytes \o c.data \o ToBeBytes(c.crc)

\* faulty variant: the checksum is read but not compared
ChunkTryFromUnchecked(value) ==
    IF Len(value) < 8 THEN Panic
    ELSE With(ChunkTypeTryFrom(SubSeq(value, 5, 8)), LAMBDA ct :
         IF ct.kind # "Ok" THEN ct
         ELSE IF Len(value) - 4 < 8 THEN Panic
         ELSE Ok([length |-> FromBeBytes(SubSeq(value, 1, 4)), chunk_type |-> ct.val,
                  data |-> SubSeq(value, 9, Len(value) - 4),
                  crc |-> FromBeBytes(SubSeq(value, Len(value) - 3, Len(value)))]))

\* impl TryFrom<&[u8]> for Chunk.  value[0..4] and value[4..8] abort on a slice
\* shorter than 8 bytes; the type is validated next; value[8..len-4] aborts
\* when len - 4 < 8 (for len < 4 the subtraction is never reached).
ChunkTryFrom(value) ==
    IF Len(value) < 4 THEN Panic
    ELSE IF Len(value) < 8 THEN Panic
    ELSE With(ChunkTypeTryFrom(SubSeq(value, 5, 8)), LAMBDA ct :
         IF ct.kind # "Ok" THEN ct
         ELSE IF Len(value) - 4 < 8 THEN Panic
         ELSE LET length == FromBeBytes(SubSeq(value, 1, 4))
                  data == SubSeq(value, 9, Len(value) - 4)
                  crc == FromBeBytes(SubSeq(value, Len(value) - 3, Len(value)))
              IN  With(calculate_crc(ct.val, data), LAMBDA calc_crc :
                  IF crc # calc_crc
                  THEN Err("ChecksumMismatch", << crc, calc_crc >>)
                  ELSE Ok([length |-> length, chunk_type |-> ct.val,
                           data |-> data, crc |-> crc])))

(***************************************************************************)
(* png.rs: the chunk container.  A container is the sequence of its        *)
(* chunks; the signature is a constant.                                    *)
(***************************************************************************)
\* the PNG signature 89 50 4E 47 0D 0A 1A 0A
STANDARD_HEADER == << 137, 80, 78, 71, 13, 10, 26, 10 >>

Min(a, b) == IF a <= b THEN a ELSE b

\* the index of the first chunk whose type's string form is type_str, 0 if none
FirstOfType(chunks, type_str) ==
    LET hits == {i \in 1..Len(chunks) :
                    ChunkTypeToString(chunks[i].chunk_type) = type_str}
    IN  IF hits = {} THEN 0 ELSE CHOOSE i \in hits : \A j \in hits : i <= j

\* Png::append_chunk
append_chunk(chunks, c) == Append(chunks, c)

\* Png::chunk_by_type
chunk_by_type(chunks, type_str) ==
    With(FirstOfType(chunks, type_str), LAMBDA i :
         IF i = 0 THEN None ELSE Some(chunks[i]))

\* Png::remove_chunk: the container without the first matching chunk
remove_chunk(chunks, type_str) ==
    With(FirstOfType(chunks, type_str), LAMBDA i :
         IF i = 0 THEN Err("NotFound", chunks)
         ELSE Ok(SubSeq(chunks, 1, i - 1) \o SubSeq(chunks, i + 1, Len(chunks))))

\* Png::as_bytes
RECURSIVE ChunksBytes(_)
ChunksBytes(chunks) ==
    IF chunks = << >> THEN << >>
    ELSE as_bytes(Head(chunks)) \o ChunksBytes(Tail(chunks))

PngAsBytes(chunks) == STANDARD_HEADER \o ChunksBytes(chunks)

\* the last byte of the record starting at cursor, 12 + the embedded length
\* bytes on; 0 when the input ends before that (the length cannot be read, or
\* the record would run past the end)
RecordEnd(bytes, cursor) ==
    IF Len(bytes) - cursor + 1 < 4 THEN 0
    ELSE LET length == FromBeBytes(SubSeq(bytes, cursor, cursor + 3))
         IN  IF U32Small(length) /\ cursor + 12 + length[2] - 1 <= Len(bytes)
             THEN cursor + 12 + length[2] - 1
             ELSE 0

\* the chunk loop of Png::try_from: each record goes to Chunk::try_from, the
\* first failure ends the parse; attempts counts the calls of Chunk::try_from.
\* A record the input is too short for is a MalformedRecord.
RECURSIVE ParseChunks(_, _, _)
ParseChunks(bytes, cursor, acc) ==
    IF cursor > Len(bytes)
    THEN [kind |-> "Ok", val |-> acc, attempts |-> Len(acc)]
    ELSE With(RecordEnd(bytes, cursor), LAMBDA end :
         IF end = 0
         THEN [kind |-> "MalformedRecord", val |-> acc, attempts |-> Len(acc)]
         ELSE With(ChunkTryFrom(SubSeq(bytes, cursor, end)), LAMBDA r :
              IF r.kind # "Ok"
              THEN [kind |-> r.kind, val |-> acc, attempts |-> Len(acc) + 1]
              ELSE With(Append(acc, r.val), LAMBDA more :
                        ParseChunks(bytes, end + 1, more))))

\* impl TryFrom<&[u8]> for Png
PngTryFrom(bytes) ==
    IF Len(bytes) < 8 \/ SubSeq(bytes, 1, 8) # STANDARD_HEADER
    THEN [kind |-> "BadSignature", val |-> << >>, attempts |-> 0]
    ELSE ParseChunks(bytes, 9, << >>)

(***************************************************************************)
(* examples/hidden_msg/commands.rs.  A command maps the file to            *)
(* [kind, file, p, out]: how it ended, the file it leaves, the container   *)
(* it last held and what it printed.  The file written is the one followed *)
(* here (--output, when given, names it).                                  *)
(***************************************************************************)
\* "IEND"
IEND == << 73, 69, 78, 68 >>

\* read_file
read_file(file) == PngTryFrom(file)

Ended(kind, file, p, out) == [kind |-> kind, file |-> file, p |-> p, out |-> out]

\* encode; yes is the user's answer to the prompt
encode(file, ct, m, yes) ==
    IF ~ yes THEN Ended("Declined", file, << >>, << >>)
    ELSE With(read_file(file), LAMBDA r :
         IF r.kind # "Ok" THEN Ended(r.kind, file, << >>, << >>)
         ELSE With(remove_chunk(r.val, IEND).val, LAMBDA p1 :
              With(remove_chunk(p1, ct).val, LAMBDA p2 :
              With(ChunkTypeFromStr(ct), LAMBDA t :
              IF t.kind # "Ok" THEN Ended(t.kind, file, p2, << >>)
              ELSE With(append_chunk(p2, ChunkNew(t.val, m)), LAMBDA p3 :
                   With(append_chunk(p3, ChunkNew(ChunkTypeFromStr(IEND).val, << >>)),
                        LAMBDA p4 : Ended("Ok", PngAsBytes(p4), p4, << >>)))))))

\* Chunk::data_as_string
data_as_string(c) ==
    IF \E i \in 1..Len(c.data) : c.data[i] >= 128
    THEN Err("NonAsciiByte", << >>)
    ELSE Ok(Utf8Lossy(c.data))

\* decode
decode(file, ct) ==
    With(read_file(file), LAMBDA r :
         IF r.kind # "Ok" THEN Ended(r.kind, file, << >>, << >>)
         ELSE With(chunk_by_type(r.val, ct), LAMBDA c :
              IF c.kind = "None" THEN Ended("NoMessage", file, r.val, << >>)
              ELSE With(data_as_string(c.val), LAMBDA msg :
                   IF msg.kind # "Ok" THEN Ended(msg.kind, file, r.val, c.val.data)
                   ELSE Ended("Ok", file, r.val, msg.val))))

\* remove
remove(file, ct) ==
    With(read_file(file), LAMBDA r :
         IF r.kind # "Ok" THEN Ended(r.kind, file, << >>, << >>)
         ELSE With(remove_chunk(r.val, ct), LAMBDA r1 :
              IF r1.kind # "Ok" THEN Ended(r1.kind, file, r.val, << >>)
              ELSE Ended("Ok", PngAsBytes(r1.val), r1.val, << >>)))

\* print
print(file) ==
    With(read_file(file), LAMBDA r :
         IF r.kind # "Ok" THEN Ended(r.kind, file, << >>, << >>)
         ELSE Ended("Ok", file, r.val, PngAsBytes(r.val)))

(***************************************************************************)
(* State.                                                                  *)
(*   str, ctRes, text, flags : a type-code string, the result of the last  *)
(*       ChunkType constructor called on it, and what to_string and the    *)
(*       flag accessors returned for the constructed type code             *)
(*   chunk, buf, damage, parsed : a chunk built by Chunk::new, a byte      *)
(*       slice, what was done to the slice since it was serialized, and    *)
(*       the result of Chunk::try_from on it                               *)
(*   png, pure : the container a library session holds in memory, and    *)
(*       whether it was built from the empty one by appends alone          *)
(*   file, saved, fileDamaged : the bytes on disk, the container they were *)
(*       serialized from while they are still exactly that, and whether    *)
(*       they were damaged since they were written                         *)
(*   justRemoved : the type last removed with success, until the container *)
(*       is changed again                                                  *)
(*   last : the last operation or command and how it ended                 *)
(***************************************************************************)
VARIABLES str, ctRes, text, flags, chunk, buf, damage, parsed,
          png, pure, file, saved, fileDamaged, justRemoved, last

typeVars == << str, ctRes, text, flags >>
chunkVars == << chunk, buf, damage, parsed >>
pngVars == << png, pure, file, saved, fileDamaged, justRemoved, last >>
vars == << str, ctRes, text, flags, chunk, buf, damage, parsed,
           png, pure, file, saved, fileDamaged, justRemoved, last >>

RECURSIVE SeqsUpTo(_, _)
SeqsUpTo(S, n) ==
    IF n = 0 THEN {<< >>}
    ELSE LET shorter == SeqsUpTo(S, n - 1)
         IN  shorter \cup {Append(q, b) : q \in shorter, b \in S}

\* bytes tried in 4-byte type codes: "RuSt", "Rust", the ends of both letter ranges,
\* their outer neighbours, a digit and a non-ASCII byte
CodeBytes == {82, 117, 83, 115, 116, 65, 90, 97, 122, 64, 91, 96, 123, 49, 200}
\* bytes of the strings of other lengths
ShortBytes == {83, 116, 49}
TypeStrs ==
    [1..4 -> CodeBytes] \cup {q \in SeqsUpTo(ShortBytes, MaxStrLen) : Len(q) # 4}

TypeIdle == str = << >> /\ ctRes = None /\ text = None /\ flags = None
ChunkIdle == chunk = None /\ buf = None /\ damage = "none" /\ parsed = None
NoOp == [op |-> "none", arg |-> << >>, kind |-> "none", res |-> << >>]
PngIdle == /\ png = None /\ pure = FALSE /\ file = None /\ saved = None
           /\ fileDamaged = FALSE /\ justRemoved = None /\ last = NoOp

(***************************************************************************)
(* Type codes: the constructors and accessors applied to a string.         *)
(***************************************************************************)
InitType == /\ str \in TypeStrs
            /\ ctRes = None /\ text = None /\ flags = None
            /\ ChunkIdle /\ PngIdle

\* ChunkType::from_str(str)
FromStr ==
    /\ ctRes' = Some([op |-> "from_str", res |-> ChunkTypeFromStr(str)])
    /\ text' = None /\ flags' = None
    /\ UNCHANGED << str, chunkVars, pngVars >>

\* ChunkType::try_from(bytes) on the string's bytes as a [u8; 4]
TryFromBytes ==
    /\ Len(str) = 4
    /\ ctRes' = Some([op |-> "try_from", res |-> ChunkTypeTryFrom(str)])
    /\ text' = None /\ flags' = None
    /\ UNCHANGED << str, chunkVars, pngVars >>

\* to_string() of the constructed type code
ToString ==
    /\ ctRes.kind = "Some" /\ ctRes.val.res.kind = "Ok"
    /\ text' = Some(ChunkTypeToString(ctRes.val.res.val))
    /\ UNCHANGED << str, ctRes, flags, chunkVars, pngVars >>

\* the five flag accessors of the constructed type code
ReadFlags ==
    /\ ctRes.kind = "Some" /\ ctRes.val.res.kind = "Ok"
    /\ LET ct == ctRes.val.res.val
       IN  flags' = Some([critical |-> is_critical(ct),
                          public |-> is_public(ct),
                          reserved_bit_valid |-> is_reserved_bit_valid(ct),
                          safe_to_copy |-> is_safe_to_copy(ct),
                          valid |-> is_valid(ct)])
    /\ UNCHANGED << str, ctRes, text, chunkVars, pngVars >>

NextType == FromStr \/ TryFromBytes \/ ToString \/ ReadFlags

SpecType == InitType /\ [][NextType]_vars

(***************************************************************************)
(* Chunk records: a chunk is built, serialized, the slice is possibly      *)
(* damaged by whoever hands it over, and Chunk::try_from reads it.         *)
(***************************************************************************)
TypeCodes == { << 82, 117, 83, 116 >>,     \* "RuSt"
               << 73, 69, 78, 68 >>,       \* "IEND"
               << 65, 122, 90, 97 >> }     \* "AzZa"
DataBytes == {0, 104, 255}

InitChunk == ChunkIdle /\ TypeIdle /\ PngIdle

\* Chunk::new(ChunkType::try_from(t).unwrap(), d)
NewChunk ==
    /\ chunk.kind = "None"
    /\ \E t \in TypeCodes, d \in SeqsUpTo(DataBytes, MaxData) :
          chunk' = Some(ChunkNew(ChunkTypeTryFrom(t).val, d))
    /\ UNCHANGED << buf, damage, parsed, typeVars, pngVars >>

\* chunk.as_bytes()
Serialize ==
    /\ chunk.kind = "Some" /\ buf.kind = "None"
    /\ buf' = Some(as_bytes(chunk.val))
    /\ UNCHANGED << chunk, damage, parsed, typeVars, pngVars >>

\* the segment of a serialized chunk that byte i (from 1) lies in
Segment(bytes, i) ==
    IF i <= 4 THEN "length"
    ELSE IF i <= 8 THEN "type"
    ELSE IF i <= Len(bytes) - 4 THEN "data"
    ELSE "crc"

\* one bit of the slice is flipped before it is parsed
FlipBit ==
    /\ buf.kind = "Some" /\ damage = "none" /\ parsed.kind = "None"
    /\ \E i \in 1..Len(buf.val), k \in 0..7 :
          /\ buf' = Some([buf.val EXCEPT ![i] = FlipBitOf(buf.val[i], k)])
          /\ damage' = Segment(buf.val, i)
    /\ UNCHANGED << chunk, parsed, typeVars, pngVars >>

\* only the first n bytes of the slice are handed over
Truncate ==
    /\ buf.kind = "Some" /\ damage = "none" /\ parsed.kind = "None"
    /\ \E n \in 0..(Len(buf.val) - 1) :
          buf' = Some(SubSeq(buf.val, 1, n))
    /\ damage' = "truncated"
    /\ UNCHANGED << chunk, parsed, typeVars, pngVars >>

\* Chunk::try_from(&buf)
Parse ==
    /\ buf.kind = "Some" /\ parsed.kind = "None"
    /\ parsed' = Some(ChunkTryFrom(buf.val))
    /\ UNCHANGED << chunk, buf, damage, typeVars, pngVars >>

NextChunk == NewChunk \/ Serialize \/ FlipBit \/ Truncate \/ Parse

SpecChunk == InitChunk /\ [][NextChunk]_vars

(***************************************************************************)
(* The container and the hidden_msg commands.  A library session holds a   *)
(* container in memory (png), first the empty one; as_bytes puts it on     *)
(* disk (file) and ends the session, Png::try_from starts one from the     *)
(* file.  The commands work on the file.  A file may be damaged once       *)
(* before it is read: a flipped bit or a lost tail.                        *)
(***************************************************************************)
RUST == << 82, 117, 83, 116 >>          \* "RuSt"
BAD_TYPE == << 82, 117, 49, 116 >>      \* "Ru1t"
\* --chunk arguments and type strings looked up
CtArgs == {RUST, IEND, BAD_TYPE}
\* --msg arguments and chunk data
Msgs == {<< >>, << 104 >>}
\* the chunks appended in a library session
ChunkPool == {ChunkNew(ChunkTypeFromStr(t).val, m) : t \in {RUST, IEND}, m \in Msgs}
\* the bits flipped by file damage
DamageBits == {0, 7}

Init == /\ png = Some(<< >>) /\ pure = TRUE
        /\ file = None /\ saved = None /\ fileDamaged = FALSE
        /\ justRemoved = None /\ last = NoOp
        /\ TypeIdle /\ ChunkIdle

Did(op, arg, kind, res) == [op |-> op, arg |-> arg, kind |-> kind, res |-> res]

\* png.append_chunk(c)
PngAppend ==
    /\ png.kind = "Some" /\ Len(png.val) < MaxChunks
    /\ \E c \in ChunkPool : png' = Some(append_chunk(png.val, c))
    /\ justRemoved' = None /\ saved' = None
    /\ last' = Did("append_chunk", << >>, "Ok", << >>)
    /\ UNCHANGED << pure, file, fileDamaged, typeVars, chunkVars >>

\* png.remove_chunk(t)
PngRemove ==
    /\ png.kind = "Some"
    /\ \E t \in CtArgs : \E r \in {remove_chunk(png.val, t)} :
              /\ png' = Some(r.val)
              /\ pure' = (pure /\ r.kind # "Ok")
              /\ justRemoved' = IF r.kind = "Ok" THEN Some(t) ELSE justRemoved
              /\ last' = Did("remove_chunk", t, r.kind, << >>)
    /\ saved' = None
    /\ UNCHANGED << file, fileDamaged, typeVars, chunkVars >>

\* png.chunk_by_type(t)
PngChunkByType ==
    /\ png.kind = "Some"
    /\ \E t \in CtArgs : \E c \in {chunk_by_type(png.val, t)} :
          last' = Did("chunk_by_type", t, c.kind, c.val)
    /\ saved' = None
    /\ UNCHANGED << png, pure, file, fileDamaged, justRemoved, typeVars, chunkVars >>

\* the file is written with png.as_bytes()
PngSave ==
    /\ png.kind = "Some"
    /\ file' = Some(PngAsBytes(png.val))
    /\ saved' = Some([chunks |-> png.val, pure |-> pure])
    /\ png' = None /\ pure' = FALSE /\ fileDamaged' = FALSE
    /\ justRemoved' = None
    /\ last' = Did("as_bytes", << >>, "Ok", << >>)
    /\ UNCHANGED << typeVars, chunkVars >>

\* a session starts with Png::try_from(&file): a container on success, none
\* on any failure; the session's container then stands for the data
PngLoad ==
    /\ png.kind = "None" /\ file.kind = "Some"
    /\ \E r \in {PngTryFrom(file.val)} :
           /\ png' = IF r.kind = "Ok" THEN Some(r.val) ELSE None
           /\ file' = IF r.kind = "Ok" THEN None ELSE file
           /\ last' = Did("try_from", file.val, r.kind,
                          [attempts |-> r.attempts, parsed |-> Len(r.val)])
    /\ pure' = FALSE /\ justRemoved' = None
    /\ UNCHANGED << saved, fileDamaged, typeVars, chunkVars >>

\* one bit of the file flips
DamageFlip ==
    /\ png.kind = "None" /\ file.kind = "Some" /\ ~ fileDamaged
    /\ \E i \in 1..Len(file.val), k \in DamageBits :
          file' = Some([file.val EXCEPT ![i] = FlipBitOf(file.val[i], k)])
    /\ fileDamaged' = TRUE /\ saved' = None
    /\ last' = Did("damage", << >>, "flip", << >>)
    /\ UNCHANGED << png, pure, justRemoved, typeVars, chunkVars >>

\* the tail of the file is lost
DamageTruncate ==
    /\ png.kind = "None" /\ file.kind = "Some" /\ ~ fileDamaged
    /\ \E n \in 0..(Len(file.val) - 1) : file' = Some(SubSeq(file.val, 1, n))
    /\ fileDamaged' = TRUE /\ saved' = None
    /\ last' = Did("damage", << >>, "truncate", << >>)
    /\ UNCHANGED << png, pure, justRemoved, typeVars, chunkVars >>

\* a command ended as e: the file it leaves, and the record of it
Command(op, arg, e) ==
    /\ file' = Some(e.file)
    /\ saved' = IF e.file = file.val THEN saved ELSE None
    /\ fileDamaged' = IF e.file = file.val THEN fileDamaged ELSE FALSE
    /\ last' = Did(op, arg, e.kind, [p |-> e.p, out |-> e.out])
    /\ UNCHANGED << png, pure, justRemoved, typeVars, chunkVars >>

\* hidden_msg encode -f file -c ct -m m; the user confirms or declines.  The
\* command is followed while the container it writes has at most MaxChunks.
CmdEncode ==
    /\ png.kind = "None" /\ file.kind = "Some"
    /\ \/ \E e \in {encode(file.val, IEND, << >>, FALSE)} :
             Command("encode", << >>, e)
       \/ \E ct \in CtArgs, m \in Msgs : \E e \in {encode(file.val, ct, m, TRUE)} :
             /\ Len(e.p) <= MaxChunks
             /\ Command("encode", [ct |-> ct, m |-> m], e)

\* hidden_msg decode -f file -c ct
CmdDecode ==
    /\ png.kind = "None" /\ file.kind = "Some"
    /\ \E ct \in CtArgs : \E e \in {decode(file.val, ct)} :
          Command("decode", [ct |-> ct], e)

\* hidden_msg remove -f file -c ct
CmdRemove ==
    /\ png.kind = "None" /\ file.kind = "Some"
    /\ \E ct \in CtArgs : \E e \in {remove(file.val, ct)} :
          Command("remove", [ct |-> ct], e)

\* hidden_msg print -f file
CmdPrint ==
    /\ png.kind = "None" /\ file.kind = "Some"
    /\ \E e \in {print(file.val)} : Command("print", << >>, e)

Next == \/ PngAppend \/ PngRemove \/ PngChunkByType \/ PngSave \/ PngLoad
        \/ CmdEncode \/ CmdDecode \/ CmdRemove \/ CmdPrint

Spec == Init /\ [][Next]_vars

(***************************************************************************)
(* Png::try_from on files that may have been damaged.                      *)
(***************************************************************************)
NextParse == PngAppend \/ PngSave \/ DamageFlip \/ DamageTruncate \/ PngLoad

SpecParse == Init /\ [][NextParse]_vars

(***************************************************************************)
(* Properties.                                                             *)
(***************************************************************************)
Uppercase == 65..90
Lowercase == 97..122
AllLetters(bytes) ==
    \A i \in 1..Len(bytes) : bytes[i] \in Uppercase \/ bytes[i] \in Lowercase

\* the chunk's length is its data's and its crc is the CRC-32 of type and data
Consistent(c) ==
    /\ c.length = AsU32(Len(c.data))
    /\ c.crc = crc32(c.chunk_type.bytes \o c.data)

\* C1: a chunk built by Chunk::new, serialized by as_bytes and parsed by
\* Chunk::try_from from the undamaged bytes parses successfully, to a chunk with
\* the same length, type bytes, data and crc.
C1_ChunkRoundTrip ==
    (chunk.kind = "Some" /\ damage = "none" /\ parsed.kind = "Some") =>
        /\ parsed.val.kind = "Ok"
        /\ parsed.val.val.length = chunk.val.length
        /\ parsed.val.val.chunk_type.bytes = chunk.val.chunk_type.bytes
        /\ parsed.val.val.data = chunk.val.data
        /\ parsed.val.val.crc = chunk.val.crc

\* a chunk with data went through as_bytes and try_from unharmed
C1_Witness ==
    /\ chunk.kind = "Some" /\ damage = "none" /\ parsed.kind = "Some"
    /\ Len(chunk.val.data) >= 1 /\ parsed.val.kind = "Ok"

\* C4 as claimed: after one bit of the type or data segment of a serialized
\* chunk is flipped, Chunk::try_from yields ChecksumMismatch.
C4_FlipYieldsChecksumMismatch ==
    (damage \in {"type", "data"} /\ parsed.kind = "Some") =>
        parsed.val.kind = "ChecksumMismatch"

\* C4 amended: after one bit of the type or data segment is flipped,
\* Chunk::try_from never succeeds; it yields ChecksumMismatch when the four type
\* bytes are still letters (always so for a flip in the data) and InvalidByte
\* when the flip took a type byte out of the letters.
C4_FlipIsDetected ==
    (damage \in {"type", "data"} /\ parsed.kind = "Some") =>
        /\ parsed.val.kind # "Ok"
        /\ damage = "data" => parsed.val.kind = "ChecksumMismatch"
        /\ parsed.val.kind = IF AllLetters(SubSeq(buf.val, 5, 8))
                             THEN "ChecksumMismatch" ELSE "InvalidByte"

\* a flipped type bit that left four letters was caught by the checksum
C4_Witness ==
    /\ damage = "type" /\ parsed.kind = "Some"
    /\ parsed.val.kind = "ChecksumMismatch"

\* C5 as claimed: every chunk from Chunk::new or from a successful
\* Chunk::try_from has length = data.len() and crc = CRC-32(type bytes, data).
C5_ChunkConsistent ==
    /\ chunk.kind = "Some" => Consistent(chunk.val)
    /\ (parsed.kind = "Some" /\ parsed.val.kind = "Ok") => Consistent(parsed.val.val)

\* C6 as claimed: Chunk::try_from on a slice shorter than 12 bytes returns the
\* MalformedRecord error.
C6_ShortSliceIsMalformedRecord ==
    (buf.kind = "Some" /\ parsed.kind = "Some" /\ Len(buf.val) < 12) =>
        parsed.val.kind = "MalformedRecord"

\* C7: try_from on four bytes succeeds exactly when all are letters and fails
\* with InvalidByte otherwise; from_str fails with InvalidLength on a string
\* that is not 4 bytes long and otherwise does as try_from on its bytes; the
\* type code made from a string renders as that string.
C7_TypeCodeConstruction ==
    /\ ctRes.kind = "Some" =>
          /\ (ctRes.val.op = "from_str" /\ Len(str) # 4) =>
                ctRes.val.res.kind = "InvalidLength"
          /\ Len(str) = 4 =>
                /\ ctRes.val.res.kind = IF AllLetters(str) THEN "Ok" ELSE "InvalidByte"
                /\ ctRes.val.res.kind = "Ok" => ctRes.val.res.val.bytes = str
    /\ text.kind = "Some" => text.val = str

\* from_str accepted a string and to_string rendered the type code
C7_Witness ==
    /\ ctRes.kind = "Some" /\ ctRes.val.op = "from_str"
    /\ ctRes.val.res.kind = "Ok" /\ text.kind = "Some"

\* C8: is_critical, is_public and is_reserved_bit_valid hold exactly when
\* byte 0, 1, 2 is uppercase (bit 5 clear), is_safe_to_copy exactly when byte 3
\* is lowercase (bit 5 set), is_valid equals is_reserved_bit_valid; "RuSt" is
\* critical, not public, reserved-valid and safe to copy, "Rust" is not
\* reserved-valid.
C8_Flags ==
    flags.kind = "Some" =>
        LET b == ctRes.val.res.val.bytes
            f == flags.val
        IN  /\ f.critical = (b[1] \in Uppercase)
            /\ f.critical = ((b[1] \div 32) % 2 = 0)
            /\ f.public = (b[2] \in Uppercase)
            /\ f.public = ((b[2] \div 32) % 2 = 0)
            /\ f.reserved_bit_valid = (b[3] \in Uppercase)
            /\ f.reserved_bit_valid = ((b[3] \div 32) % 2 = 0)
            /\ f.safe_to_copy = (b[4] \in Lowercase)
            /\ f.safe_to_copy = ((b[4] \div 32) % 2 = 1)
            /\ f.valid = f.reserved_bit_valid
            /\ b = << 82, 117, 83, 116 >> =>
                  f.critical /\ ~ f.public /\ f.reserved_bit_valid /\ f.safe_to_copy
            /\ b = << 82, 117, 115, 116 >> => ~ f.reserved_bit_valid

\* the flags of "RuSt" were read
C8_Witness ==
    /\ flags.kind = "Some" /\ ctRes.val.res.val.bytes = << 82, 117, 83, 116 >>
    /\ flags.val.critical /\ flags.val.safe_to_copy

HasType(c, t) == c.chunk_type.bytes = t
TypeIndices(chunks, t) == {i \in 1..Len(chunks) : HasType(chunks[i], t)}
Without(chunks, i) == SubSeq(chunks, 1, i - 1) \o SubSeq(chunks, i + 1, Len(chunks))
SignatureOk(bytes) == Len(bytes) >= 8 /\ SubSeq(bytes, 1, 8) = STANDARD_HEADER

\* C2: parsing the bytes written from a container that was built from the
\* empty chunk list by appends alone succeeds and gives the same chunks in the
\* same order.
C2_ContainerRoundTrip ==
    (last.op = "try_from" /\ saved.kind = "Some" /\ saved.val.pure) =>
        /\ last.kind = "Ok"
        /\ png.kind = "Some"
        /\ png.val = saved.val.chunks

\* a container of appended chunks, two of them equal, was written and parsed
C2_Witness ==
    /\ last.op = "try_from" /\ saved.kind = "Some" /\ saved.val.pure
    /\ png.kind = "Some" /\ Len(png.val) >= 2 /\ png.val[1] = png.val[2]
    /\ Len(png.val[1].data) >= 1

\* C3 as claimed: once a remove_chunk(t) has succeeded, a chunk_by_type(t)
\* finds no match, and a further remove_chunk(t) returns NotFound and leaves
\* the chunks unchanged.
C3_RemoveThenAbsent ==
    [][ (justRemoved.kind = "Some" /\ png.kind = "Some") =>
          /\ (last'.op = "chunk_by_type" /\ last'.arg = justRemoved.val) =>
                last'.kind = "None"
          /\ (last'.op = "remove_chunk" /\ last'.arg = justRemoved.val) =>
                (last'.kind = "NotFound" /\ png' = png) ]_vars

\* C3 amended: remove_chunk(t) succeeds exactly when a chunk of type t is
\* held, and then removes the first such chunk and keeps the others in order;
\* it returns NotFound and leaves the chunks unchanged otherwise.  Once a
\* remove_chunk(t) has succeeded and no chunk of type t is left, chunk_by_type(t)
\* finds no match and a further remove_chunk(t) returns NotFound and leaves the
\* chunks unchanged; while a chunk of type t is left, chunk_by_type(t) returns
\* the first of them.
C3_RemoveFirstOnly ==
    [][ png.kind = "Some" =>
          /\ last'.op = "remove_chunk" =>
                LET ix == TypeIndices(png.val, last'.arg)
                IN  IF ix = {}
                    THEN last'.kind = "NotFound" /\ png' = png
                    ELSE /\ last'.kind = "Ok"
                         /\ \E i \in ix :
                               /\ \A j \in ix : i <= j
                               /\ png'.val = Without(png.val, i)
          /\ (justRemoved.kind = "Some" /\ last'.op = "chunk_by_type"
                /\ last'.arg = justRemoved.val) =>
                LET ix == TypeIndices(png.val, justRemoved.val)
                IN  IF ix = {}
                    THEN last'.kind = "None"
                    ELSE /\ last'.kind = "Some"
                         /\ \E i \in ix :
                               /\ \A j \in ix : i <= j
                               /\ last'.res = png.val[i] ]_vars

\* after a successful remove_chunk(t), a further remove_chunk(t) found nothing
C3_Witness ==
    /\ justRemoved.kind = "Some" /\ png.kind = "Some"
    /\ last.op = "remove_chunk" /\ last.arg = justRemoved.val
    /\ last.kind = "NotFound" /\ Len(png.val) >= 1

\* C9: parsing an input that does not start with the PNG signature fails with
\* BadSignature before any chunk is parsed; a parse that fails returns no
\* container, however many chunks before the failing one were good; a parse
\* that succeeds returns exactly the chunks of the whole input, each with a
\* letters-only type and a matching checksum.
C9_ParseAllOrNothing ==
    last.op = "try_from" =>
        /\ ~ SignatureOk(last.arg) =>
              last.kind = "BadSignature" /\ last.res.attempts = 0
        /\ last.kind # "Ok" =>
              /\ png.kind = "None"
              /\ SignatureOk(last.arg) =>
                    /\ last.kind # "BadSignature"
                    /\ last.res.attempts \in {last.res.parsed, last.res.parsed + 1}
        /\ last.kind = "Ok" =>
              /\ SignatureOk(last.arg)
              /\ png.kind = "Some"
              /\ last.res.attempts = Len(png.val)
              /\ PngAsBytes(png.val) = last.arg
              /\ \A i \in 1..Len(png.val) :
                    /\ AllLetters(png.val[i].chunk_type.bytes)
                    /\ png.val[i].crc
                          = crc32(png.val[i].chunk_type.bytes \o png.val[i].data)

\* a parse failed on a chunk after at least one good chunk and returned nothing
C9_Witness ==
    /\ last.op = "try_from" /\ SignatureOk(last.arg)
    /\ last.kind = "ChecksumMismatch" /\ last.res.parsed >= 1
    /\ png.kind = "None"

\* C10 as claimed: after a successful encode of message m under type ct,
\* chunk_by_type(ct) returns the chunk whose data is m and no older chunk of
\* type ct is left in the container.
C10_EncodeReplacesMessages ==
    (last.op = "encode" /\ last.kind = "Ok") =>
        LET p == last.res.p
            c == chunk_by_type(p, last.arg.ct)
        IN  /\ c.kind = "Some"
            /\ c.val.data = last.arg.m
            /\ \A i \in 1..(Len(p) - 2) : ~ HasType(p[i], last.arg.ct)

\* the container holds exactly one IEND chunk, as its last entry, with no data
TerminalOk(chunks) ==
    /\ Len(chunks) >= 1
    /\ TypeIndices(chunks, IEND) = {Len(chunks)}
    /\ chunks[Len(chunks)].data = << >>

\* C11 as claimed: an encode that succeeds on a file whose container holds
\* exactly one IEND chunk, as its last entry, writes a container that again
\* holds exactly one IEND chunk, as its last entry and with empty data; so the
\* property is kept through any number of encodes.
C11_EncodeKeepsTerminal ==
    [][ (/\ file.kind = "Some"
         /\ last'.op = "encode" /\ last'.kind = "Ok"
         /\ PngTryFrom(file.val).kind = "Ok"
         /\ TerminalOk(PngTryFrom(file.val).val))
            => TerminalOk(last'.res.p) ]_vars

====
